---------------------------- MODULE Spec2Model ----------------------------
(***************************************************************************)
(* fms::iterable (fms_iterable.h): iterators that carry their own          *)
(* exhaustion test, operator bool().                                       *)
(*                                                                         *)
(* A cursor is a record whose "type" field names the class template it is  *)
(* an instance of; the other fields are the data members of that class.    *)
(* A class that derives from its inner iterator (counted<I>, interval<I>)  *)
(* keeps the base subobject in the field "i".  Each member function is an  *)
(* operator named <class>_<member>; op_bool, op_deref and op_inc select    *)
(* the member of the cursor's class, as overload resolution does.          *)
(***************************************************************************)
EXTENDS Integers, Sequences, FiniteSets, TLC

\* ------------------------------------------------------------------ bounds
MaxLen   == 2   \* longest array
MaxVal   == 1   \* array elements are 0..MaxVal
MaxIota  == 5   \* interval<iota> sources lie within [0, MaxIota]
MaxN     == 5   \* largest row of choose(n)
MaxReads == 5   \* reads of a cursor that never runs out (repeat)
MaxAdv   == 2   \* ++ calls made without asking whether there is more
MaxDrop  == 3   \* largest count handed to drop
MaxCap   == 2   \* largest explicit cap handed to compare
MaxSeed  == 1   \* largest seed of fold
MaxOff   == 2   \* offsets handed to +=, -=, +, - are -MaxOff..MaxOff
MaxOps   == 3   \* operations applied to a counted cursor

\* std::numeric_limits<std::size_t>::max(), the default cap of compare.  The
\* model's std::size_t is narrower than the program's, so that a count that
\* wraps around can be followed all the way; SIZE_MAX stays above every
\* length, count and offset of the model.
SIZE_MAX == 255

\* conversion to std::size_t: unsigned arithmetic wraps
SizeT(x) == x % (SIZE_MAX + 1)

Values == 0..MaxVal

RECURSIVE SeqsUpTo(_, _)
SeqsUpTo(S, n) ==
    IF n = 0 THEN {<<>>}
    ELSE LET shorter == SeqsUpTo(S, n - 1)
         IN  shorter \cup {Append(s, x) : s \in {t \in shorter : Len(t) = n - 1}, x \in S}

Arrays == SeqsUpTo(Values, MaxLen)

IsSorted(s) == \A k \in 1..(Len(s) - 1) : s[k] <= s[k + 1]

VARIABLES
    mem,    \* storage the ptr cursors point into: array name -> elements
    test,   \* which iterable is under test
    args,   \* the arguments the iterable under test was constructed from
    it,     \* the iterable under test, in its current state
    out,    \* the values read from it so far
    steps,  \* number of operator++ calls made on it
    ret,    \* the result of the algorithm called last, if any
    call,   \* the locals of the algorithm call in progress, if any
    pc      \* "run" while it is being read, the name of the loop a call is
            \* in while it runs, "done" after an algorithm call

vars == <<mem, test, args, it, out, steps, ret, call, pc>>

\* ------------------------------------------------------------ constructors
ptr(base, p)          == [type |-> "ptr", base |-> base, p |-> p]
iota(t)               == [type |-> "iota", t |-> t]
interval(i, e)        == [type |-> "interval", i |-> i, e |-> e]
counted(i, n)         == [type |-> "counted", i |-> i, n |-> n]
choose(n)             == [type |-> "choose", n |-> n, k |-> 0, nk |-> 1]

RECURSIVE op_bool(_), op_deref(_), op_inc(_)
RECURSIVE member_begin(_), member_end(_), size(_, _), drop(_, _)

\* ---------------------------------------------------------------- functors
\* The callables handed to fold (BinOp), delta (D) and filter (P).  uptick
\* and downtick are the lambdas of the functions of those names.
Max2(a, b) == IF a > b THEN a ELSE b
Min2(a, b) == IF a < b THEN a ELSE b
Invoke(f, a, b) ==
    CASE f = "plus"       -> a + b
      [] f = "multiplies" -> a * b
      [] f = "minus"      -> a - b
      [] f = "uptick"     -> Max2(b - a, 0)
      [] f = "downtick"   -> Min2(b - a, 0)
Pred(p, x) ==
    CASE p = "even"    -> x % 2 = 0
      [] p = "odd"     -> x % 2 = 1
      [] p = "nonzero" -> x # 0
      [] p = "none"    -> FALSE

\* ------------------------------------------------------------------- ptr<T>
ptr_bool(c)      == c.base # "null"
ptr_deref(c)     == mem[c.base][c.p + 1]
ptr_inc(c)       == [c EXCEPT !.p = @ + 1]
ptr_begin(c)     == c
ptr_pluseq(c, d) == [c EXCEPT !.p = @ + d]
ptr_minus(c, i)  == c.p - i.p
ptr_dec(c)        == [c EXCEPT !.p = @ - 1]
ptr_plus(c, d)    == ptr(c.base, c.p + d)
ptr_minuseq(c, d) == [c EXCEPT !.p = @ - d]
ptr_minus_d(c, d) == ptr(c.base, c.p - d)

\* ------------------------------------------------------------------ iota<T>
iota_bool(c)  == TRUE
iota_deref(c) == c.t
iota_inc(c)   == [c EXCEPT !.t = @ + 1]

\* -------------------------------------------------------------- interval<I>
\* interval derives from I: operator*, operator++ are I's, acting on the base.
interval_bool(c)  == c.i # c.e
interval_deref(c) == op_deref(c.i)
interval_inc(c)   == [c EXCEPT !.i = op_inc(c.i)]
interval_begin(c) == c
interval_end(c)   == interval(c.e, c.e)

\* ---------------------------------------------------------------- choose<T>
choose_bool(c)  == c.k <= c.n
choose_deref(c) == c.nk
\* choose_inc dividing before it multiplies: nk = nk / (k + 1) * (n - k)
choose_inc_divides_first(c) ==
    IF choose_bool(c)
    THEN [c EXCEPT !.nk = (c.nk \div (c.k + 1)) * (c.n - c.k), !.k = c.k + 1]
    ELSE c
choose_inc(c)   ==
    IF choose_bool(c)
    THEN [c EXCEPT !.nk = (c.nk * (c.n - c.k)) \div (c.k + 1), !.k = c.k + 1]
    ELSE c
choose_begin(c) == choose(c.n)
choose_end(c)   == [type |-> "choose", n |-> c.n, k |-> c.n + 1, nk |-> 0]

\* --------------------------------------------------------------- counted<I>
\* counted derives from I and adds the remaining count n.
counted_bool(c)      == c.n # 0
counted_deref(c)     == op_deref(c.i)
counted_inc(c)       ==
    IF counted_bool(c)
    THEN [c EXCEPT !.i = op_inc(c.i), !.n = c.n - 1]
    ELSE c
\* *j = v through the non-const operator*, which returns I::operator*()
ptr_assign(c, v)     == [mem EXCEPT ![c.base][c.p + 1] = v]
counted_assign(c, v) == ptr_assign(c.i, v)
counted_pluseq(c, d) == [c EXCEPT !.i = ptr_pluseq(c.i, d), !.n = SizeT(c.n - d)]
counted_minus(c, i)  == ptr_minus(c.i, i.i)
\* counted_dec that steps the inner back and forgets ++n
counted_dec_keeps_count(c) == [c EXCEPT !.i = ptr_dec(c.i)]
counted_dec(c)            == [c EXCEPT !.i = ptr_dec(c.i), !.n = SizeT(c.n + 1)]
counted_plus(c, d)        == counted(ptr_plus(c.i, d), SizeT(c.n - d))
counted_plus_friend(d, c) == counted_pluseq(c, d)
counted_minuseq(c, d)     == [c EXCEPT !.i = ptr_minuseq(c.i, d), !.n = SizeT(c.n + d)]
counted_minus_d(c, d)     == counted(ptr_minus_d(c.i, d), SizeT(c.n + d))

\* array(a): the iterable over all of the array a
array(base, N) == counted(ptr(base, 0), N)

\* ---------------------------------------------------------- merge2<I0, I1>
\* The data member _0 ("true use i0, false use i1") is the field b_0.
merge2(i0, i1) ==
    [type |-> "merge2", i0 |-> i0, i1 |-> i1,
     b_0 |-> IF op_bool(i0) /\ op_bool(i1)
            THEN ~(op_deref(i1) < op_deref(i0))
            ELSE op_bool(i0)]
merge2_bool(c)  == op_bool(c.i0) \/ op_bool(c.i1)
merge2_deref(c) ==
    IF op_bool(c.i0) /\ op_bool(c.i1)
    THEN IF op_deref(c.i0) < op_deref(c.i1) THEN op_deref(c.i0)
         ELSE IF op_deref(c.i1) < op_deref(c.i0) THEN op_deref(c.i1)
         ELSE IF c.b_0 THEN op_deref(c.i0) ELSE op_deref(c.i1)
    ELSE IF op_bool(c.i0) THEN op_deref(c.i0) ELSE op_deref(c.i1)
\* merge2_inc advancing both sides past equivalent elements
merge2_inc_both_on_equal(c) ==
    IF op_bool(c.i0) /\ op_bool(c.i1)
    THEN IF op_deref(c.i0) < op_deref(c.i1) THEN [c EXCEPT !.i0 = op_inc(@)]
         ELSE IF op_deref(c.i1) < op_deref(c.i0) THEN [c EXCEPT !.i1 = op_inc(@)]
         ELSE [c EXCEPT !.i0 = op_inc(@), !.i1 = op_inc(@), !.b_0 = ~c.b_0]
    ELSE IF op_bool(c.i0) THEN [c EXCEPT !.i0 = op_inc(@), !.b_0 = TRUE]
         ELSE IF op_bool(c.i1) THEN [c EXCEPT !.i1 = op_inc(@), !.b_0 = FALSE]
         ELSE c
merge2_inc(c) ==
    IF op_bool(c.i0) /\ op_bool(c.i1)
    THEN IF op_deref(c.i0) < op_deref(c.i1) THEN [c EXCEPT !.i0 = op_inc(@)]
         ELSE IF op_deref(c.i1) < op_deref(c.i0) THEN [c EXCEPT !.i1 = op_inc(@)]
         ELSE IF c.b_0 THEN [c EXCEPT !.i0 = op_inc(@), !.b_0 = FALSE]
                      ELSE [c EXCEPT !.i1 = op_inc(@), !.b_0 = TRUE]
    ELSE IF op_bool(c.i0) THEN [c EXCEPT !.i0 = op_inc(@), !.b_0 = TRUE]
         ELSE IF op_bool(c.i1) THEN [c EXCEPT !.i1 = op_inc(@), !.b_0 = FALSE]
         ELSE c
\* merge(i, is...) with two arguments: merge2(i, merge(j)) = merge2(i, j)
merge(i, j) == merge2(i, j)

\* --------------------------------------------------------------- repeat<I>
repeat(i) == [type |-> "repeat", i |-> i, i0 |-> i]
repeat_bool(c)  == op_bool(c.i)
repeat_deref(c) == op_deref(c.i)
repeat_inc(c)   ==
    LET j == op_inc(c.i)
    IN  IF ~op_bool(j) THEN [c EXCEPT !.i = c.i0] ELSE [c EXCEPT !.i = j]

\* ----------------------------------------------------- concatenate2<I0, I1>
concatenate2(i0, i1) == [type |-> "concatenate2", i0 |-> i0, i1 |-> i1]
concatenate2_bool(c)  == op_bool(c.i0) \/ op_bool(c.i1)
\* concatenate2_deref preferring the second iterable
concatenate2_deref_second_first(c) ==
    IF op_bool(c.i1) THEN op_deref(c.i1) ELSE op_deref(c.i0)
concatenate2_deref(c) == IF op_bool(c.i0) THEN op_deref(c.i0) ELSE op_deref(c.i1)
concatenate2_inc(c)   ==
    IF op_bool(c.i0) THEN [c EXCEPT !.i0 = op_inc(@)] ELSE [c EXCEPT !.i1 = op_inc(@)]
\* concatenate(i, is...) with two arguments
concatenate(i, j) == concatenate2(i, j)

\* ------------------------------------------------------------- filter<P, I>
RECURSIVE filter_next(_)
filter_next(c) ==
    IF op_bool(c.i) /\ ~Pred(c.p, op_deref(c.i))
    THEN filter_next([c EXCEPT !.i = op_inc(@)])
    ELSE c
filter(p, i)     == filter_next([type |-> "filter", p |-> p, i |-> i])
filter_copy(a)   == filter_next([type |-> "filter", p |-> a.p, i |-> a.i])
filter_eq(c, a)  == c.i = a.i
filter_bool(c)   == op_bool(c.i)
filter_deref(c)  == op_deref(c.i)
\* filter_inc without the skip-ahead run
filter_inc_no_next(c) == [c EXCEPT !.i = op_inc(@)]
filter_inc(c)    == filter_next([c EXCEPT !.i = op_inc(@)])

\* ------------------------------------------------------------ fold<BinOp, I>
fold(op, i, t) == [type |-> "fold", op |-> op, i |-> i, t |-> t]
fold_bool(c)  == op_bool(c.i)
fold_deref(c) == c.t
fold_inc(c)   ==
    IF op_bool(c.i)
    THEN [c EXCEPT !.t = Invoke(c.op, c.t, op_deref(c.i)), !.i = op_inc(@)]
    ELSE c

\* ----------------------------------------------------------- delta<I, T, D>
\* delta constructor that takes the baseline but leaves the inner in place
delta_keeps_first(i, d) ==
    IF op_bool(i)
    THEN [type |-> "delta", d |-> d, i |-> i, t |-> op_deref(i)]
    ELSE [type |-> "delta", d |-> d, i |-> i, t |-> 0]
delta(i, d) ==
    IF op_bool(i)
    THEN [type |-> "delta", d |-> d, i |-> op_inc(i), t |-> op_deref(i)]
    ELSE [type |-> "delta", d |-> d, i |-> i, t |-> 0]
delta_bool(c)  == op_bool(c.i)
delta_deref(c) == Invoke(c.d, op_deref(c.i), c.t)
delta_inc(c)   ==
    IF op_bool(c.i)
    THEN [c EXCEPT !.t = op_deref(c.i), !.i = op_inc(@)]
    ELSE c

\* ------------------------------------------------------------------ constant
constant(t)       == [type |-> "constant", t |-> t]
constant_bool(c)  == TRUE
constant_deref(c) == c.t
constant_inc(c)   == c

\* --------------------------------------------------------------------- until
until(p, i)    == [type |-> "until", p |-> p, i |-> i]
\* until_bool that forgets the predicate
until_bool_ignores_p(c) == op_bool(c.i)
until_bool(c)  == op_bool(c.i) /\ ~Pred(c.p, op_deref(c.i))
until_deref(c) == op_deref(c.i)
until_inc(c)   == [c EXCEPT !.i = op_inc(@)]

\* ------------------------------------------- the member selected by the type
op_bool(c) ==
    CASE c.type = "ptr"      -> ptr_bool(c)
      [] c.type = "iota"     -> iota_bool(c)
      [] c.type = "interval" -> interval_bool(c)
      [] c.type = "choose"   -> choose_bool(c)
      [] c.type = "counted"  -> counted_bool(c)
      [] c.type = "merge2"   -> merge2_bool(c)
      [] c.type = "repeat" -> repeat_bool(c)
      [] c.type = "concatenate2" -> concatenate2_bool(c)
      [] c.type = "filter" -> filter_bool(c)
      [] c.type = "fold" -> fold_bool(c)
      [] c.type = "delta" -> delta_bool(c)
      [] c.type = "constant" -> constant_bool(c)
      [] c.type = "until" -> until_bool(c)
op_deref(c) ==
    CASE c.type = "ptr"      -> ptr_deref(c)
      [] c.type = "iota"     -> iota_deref(c)
      [] c.type = "interval" -> interval_deref(c)
      [] c.type = "choose"   -> choose_deref(c)
      [] c.type = "counted"  -> counted_deref(c)
      [] c.type = "merge2"   -> merge2_deref(c)
      [] c.type = "repeat" -> repeat_deref(c)
      [] c.type = "concatenate2" -> concatenate2_deref(c)
      [] c.type = "filter" -> filter_deref(c)
      [] c.type = "fold" -> fold_deref(c)
      [] c.type = "delta" -> delta_deref(c)
      [] c.type = "constant" -> constant_deref(c)
      [] c.type = "until" -> until_deref(c)
op_inc(c) ==
    CASE c.type = "ptr"      -> ptr_inc(c)
      [] c.type = "iota"     -> iota_inc(c)
      [] c.type = "interval" -> interval_inc(c)
      [] c.type = "choose"   -> choose_inc(c)
      [] c.type = "counted"  -> counted_inc(c)
      [] c.type = "merge2"   -> merge2_inc(c)
      [] c.type = "repeat" -> repeat_inc(c)
      [] c.type = "concatenate2" -> concatenate2_inc(c)
      [] c.type = "filter" -> filter_inc(c)
      [] c.type = "fold" -> fold_inc(c)
      [] c.type = "delta" -> delta_inc(c)
      [] c.type = "constant" -> constant_inc(c)
      [] c.type = "until" -> until_inc(c)

\* ---------------------------------------------------------------- algorithms
has_end(c) == c.type \in {"interval", "counted", "choose"}

\* typename I::iterator_category; counted and interval take their base's
iterator_category(c) ==
    IF c.type \in {"interval", "counted"} THEN
        (IF c.i.type = "ptr" THEN "random_access" ELSE "input")
    ELSE IF c.type = "ptr" THEN "random_access" ELSE "input"

\* std::strong_ordering as -1 (less), 0 (equal), 1 (greater)
Cmp3(a, b)    == IF a < b THEN -1 ELSE IF a > b THEN 1 ELSE 0
CmpBool(a, b) == IF a = b THEN 0 ELSE IF b THEN -1 ELSE 1

RECURSIVE compare(_, _, _)
compare(i, j, n) ==
    IF n # 0 /\ op_bool(i) /\ op_bool(j)
    THEN LET cmp == Cmp3(op_deref(i), op_deref(j))
         IN  IF cmp # 0 THEN cmp ELSE compare(op_inc(i), op_inc(j), n - 1)
    ELSE CmpBool(op_bool(i), op_bool(j))

equal(i, j, n) == compare(i, j, n) = 0

op_minus(c, i) ==
    CASE c.type = "ptr"     -> ptr_minus(c, i)
      [] c.type = "counted" -> counted_minus(c, i)
op_pluseq(c, d) ==
    CASE c.type = "ptr"     -> ptr_pluseq(c, d)
      [] c.type = "counted" -> counted_pluseq(c, d)

\* std::distance: last - first for a random access iterator, else a count
\* of the increments that take first to last.
RECURSIVE distance_loop(_, _, _)
distance_loop(first, last, n) ==
    IF first # last THEN distance_loop(op_inc(first), last, n + 1) ELSE n
std_distance(first, last) ==
    IF iterator_category(first) = "random_access"
    THEN op_minus(last, first)
    ELSE distance_loop(first, last, 0)

\* std::next: i += d for a random access iterator, else d increments.
RECURSIVE next_loop(_, _)
next_loop(i, d) == IF d = 0 THEN i ELSE next_loop(op_inc(i), d - 1)
std_next(i, d) ==
    IF iterator_category(i) = "random_access"
    THEN op_pluseq(i, d)
    ELSE next_loop(i, d)

size(i, n) ==
    IF has_end(i)
    THEN n + std_distance(i, member_end(i))
    ELSE IF op_bool(i) THEN size(op_inc(i), n + 1) ELSE n

\* drop without the cap at size(i) for iterables with end()
drop_uncapped(i, n) ==
    IF has_end(i)
    THEN std_next(i, n)
    ELSE IF n # 0 /\ op_bool(i) THEN drop(op_inc(i), n - 1) ELSE i
drop(i, n) ==
    IF has_end(i)
    THEN std_next(i, Min2(n, size(i, 0)))
    ELSE IF n # 0 /\ op_bool(i) THEN drop(op_inc(i), n - 1) ELSE i

counted_begin(c) == counted(member_begin(c.i), c.n)
\* counted_end that keeps the count instead of setting it to 0
counted_end_keeps_count(c) == counted(drop(member_begin(c.i), c.n), c.n)
counted_end(c)   == counted(drop(member_begin(c.i), c.n), 0)

member_begin(c) ==
    CASE c.type = "ptr"      -> ptr_begin(c)
      [] c.type = "interval" -> interval_begin(c)
      [] c.type = "choose"   -> choose_begin(c)
      [] c.type = "counted"  -> counted_begin(c)
member_end(c) ==
    CASE c.type = "interval" -> interval_end(c)
      [] c.type = "choose"   -> choose_end(c)
      [] c.type = "counted"  -> counted_end(c)

\* ------------------------------------------------------------------ inputs
\* A finite source is array(a) over one of the arrays in mem, or an
\* interval [iota(lo), iota(hi)).  A slot that holds an interval leaves its
\* array empty.
Intervals == {interval(iota(lo), iota(hi)) : lo \in 0..MaxIota, hi \in 0..MaxIota} \cap
             {c \in [type : {"interval"}, i : {iota(t) : t \in 0..MaxIota},
                     e : {iota(t) : t \in 0..MaxIota}] : c.i.t <= c.e.t}

Sources(base, arrs) ==
    {[arr |-> a, src |-> array(base, Len(a))] : a \in arrs} \cup
    {[arr |-> <<>>, src |-> s] : s \in Intervals}

SortedArrays == {a \in Arrays : IsSorted(a)}

\* The elements a source yields, first to last.
Elems(c) ==
    IF c.type = "counted"
    THEN SubSeq(mem[c.i.base], c.i.p + 1, c.i.p + c.n)
    ELSE [k \in 1..(c.e.t - c.i.t) |-> c.i.t + k - 1]

Start(t, a, i) ==
    /\ test = t
    /\ args = a
    /\ it = i
    /\ out = <<>>
    /\ steps = 0
    /\ ret = [fn |-> "none"]
    /\ call = [fn |-> "none"]
    /\ pc = "run"

InitMerge ==
    \E x \in Sources("a", SortedArrays), y \in Sources("b", SortedArrays) :
        /\ mem = [a |-> x.arr, b |-> y.arr]
        /\ Start("merge", [i0 |-> x.src, i1 |-> y.src], merge(x.src, y.src))

InitChoose ==
    \E n \in 0..MaxN :
        /\ mem = [a |-> <<>>, b |-> <<>>]
        /\ Start("choose", [n |-> n], choose(n))

InitSource ==
    \E x \in Sources("a", Arrays) :
        /\ mem = [a |-> x.arr, b |-> <<>>]
        /\ Start("source", [i |-> x.src], x.src)

InitCompare ==
    \E x \in Sources("a", Arrays), y \in Sources("b", Arrays),
       n \in (0..MaxCap) \cup {SIZE_MAX} :
        /\ mem = [a |-> x.arr, b |-> y.arr]
        /\ Start("compare", [i |-> x.src, j |-> y.src, n |-> n], x.src)

InitRepeat ==
    \E x \in Sources("a", Arrays) :
        /\ mem = [a |-> x.arr, b |-> <<>>]
        /\ Start("repeat", [i |-> x.src], repeat(x.src))

InitConcatenate ==
    \E x \in Sources("a", Arrays), y \in Sources("b", Arrays) :
        /\ mem = [a |-> x.arr, b |-> y.arr]
        /\ Start("concatenate", [i0 |-> x.src, i1 |-> y.src],
                 concatenate(x.src, y.src))

InitFilter ==
    \E x \in Sources("a", Arrays), p \in {"even", "odd", "nonzero", "none"} :
        /\ mem = [a |-> x.arr, b |-> <<>>]
        /\ Start("filter", [p |-> p, i |-> x.src], filter(p, x.src))

InitFold ==
    \E x \in Sources("a", Arrays), op \in {"plus", "multiplies"}, t \in 0..MaxSeed :
        /\ mem = [a |-> x.arr, b |-> <<>>]
        /\ Start("fold", [op |-> op, i |-> x.src, t |-> t], fold(op, x.src, t))

InitDelta ==
    \E x \in Sources("a", Arrays), d \in {"minus", "uptick", "downtick"} :
        /\ mem = [a |-> x.arr, b |-> <<>>]
        /\ Start("delta", [i |-> x.src, d |-> d], delta(x.src, d))

\* copy(i, j) and copy_n(i, j, n): i reads the array a or an interval, j
\* writes the first nj slots of the array b.
InitCopy ==
    \E x \in Sources("a", Arrays), b \in Arrays, fn \in {"copy", "copy_n"} :
      \E nj \in 0..Len(b), n \in (IF fn = "copy" THEN {SIZE_MAX} ELSE 0..MaxCap) :
        /\ mem = [a |-> x.arr, b |-> b]
        /\ Start("copy", [fn |-> fn, i |-> x.src, j |-> counted(ptr("b", 0), nj),
                          n |-> n, mem0 |-> [a |-> x.arr, b |-> b]], x.src)

\* A counted cursor over the n0 elements from position p0 of the array a.
InitCounted ==
    \E a \in Arrays :
      \E p0 \in 0..Len(a) :
        \E n0 \in 0..(Len(a) - p0) :
          /\ mem = [a |-> a, b |-> <<>>]
          /\ Start("counted", [p0 |-> p0, n0 |-> n0], counted(ptr("a", p0), n0))

\* until(p, s) over a counted source s
InitUntil ==
    \E a \in Arrays, p \in {"even", "odd", "nonzero", "none"} :
        /\ mem = [a |-> a, b |-> <<>>]
        /\ Start("until", [p |-> p, i |-> array("a", Len(a))],
                 until(p, array("a", Len(a))))

Init ==
    \/ InitUntil
    \/ InitCounted
    \/ InitCopy
    \/ InitSource
    \/ InitChoose
    \/ InitCompare
    \/ InitRepeat
    \/ InitConcatenate
    \/ InitMerge
    \/ InitFilter
    \/ InitFold
    \/ InitDelta

\* ------------------------------------------------------------------ actions
\* The consumer's loop: while (i) { use *i; ++i; }
Read ==
    /\ pc = "run"
    /\ test \notin {"compare", "copy", "counted"}
    /\ op_bool(it)
    /\ test = "repeat" => Len(out) < MaxReads
    /\ out' = Append(out, op_deref(it))
    /\ it' = op_inc(it)
    /\ steps' = steps + 1
    /\ UNCHANGED <<mem, test, args, ret, call, pc>>

\* A pointer may point at an element of its array or just past the last.
InArray(c) == c.p \in 0..Len(mem[c.base])

\* ++i by a caller that did not ask whether i has more
Advance ==
    /\ pc = "run"
    /\ \/ test \in {"repeat", "until"} /\ steps - Len(out) < MaxAdv
       \/ test = "counted" /\ steps < MaxOps /\ InArray(op_inc(it).i)
    /\ it' = op_inc(it)
    /\ steps' = steps + 1
    /\ UNCHANGED <<mem, test, args, out, ret, call, pc>>

\* The bidirectional and random access operations of counted<ptr<T>>.
Move(nx) ==
    /\ pc = "run"
    /\ test = "counted"
    /\ steps < MaxOps
    /\ InArray(nx.i)
    /\ it' = nx
    /\ steps' = steps + 1
    /\ UNCHANGED <<mem, test, args, out, ret, call, pc>>

Offsets == (-MaxOff)..MaxOff

Retreat          == Move(counted_dec(it))
OffsetPlusEq     == \E d \in Offsets : Move(counted_pluseq(it, d))
OffsetMinusEq    == \E d \in Offsets : Move(counted_minuseq(it, d))
OffsetPlus       == \E d \in Offsets : Move(counted_plus(it, d))
OffsetMinus      == \E d \in Offsets : Move(counted_minus_d(it, d))
OffsetFriendPlus == \E d \in Offsets : Move(counted_plus_friend(d, it))

Call(r) ==
    /\ pc = "run"
    /\ ret' = r
    /\ pc' = "done"
    /\ UNCHANGED <<mem, test, args, it, out, steps, call>>

CallCompare ==
    /\ test = "compare"
    /\ Call([fn |-> "compare", val |-> compare(it, args.j, args.n),
             eq |-> equal(it, args.j, args.n)])

CallSize ==
    /\ test \notin {"compare", "repeat", "copy", "counted"}
    /\ Call([fn |-> "size", val |-> size(it, 0)])

CallDrop ==
    /\ test \notin {"compare", "repeat", "copy", "counted"}
    /\ \E n \in 0..MaxDrop : Call([fn |-> "drop", n |-> n, val |-> drop(it, n)])

CallEnd ==
    /\ has_end(it)
    /\ test \notin {"compare", "copy", "counted"}
    /\ Call([fn |-> "end", val |-> member_end(it)])

CopyConstruct ==
    /\ test = "filter"
    /\ Call([fn |-> "copy", val |-> filter_copy(it)])

\* copy and copy_n, one loop iteration at a time.  copy has no count: its
\* loop is copy_n's without the test of n.
CallCopy ==
    /\ pc = "run"
    /\ test = "copy"
    /\ call' = [fn |-> args.fn, i |-> it, j |-> args.j, n |-> args.n]
    /\ pc' = "copy"
    /\ UNCHANGED <<mem, test, args, it, out, steps, ret>>

\* the loop test of copy_n without the count: copy_n behaving as copy
copy_more_ignores_n == op_bool(call.i) /\ op_bool(call.j)
copy_more == (call.fn = "copy_n" => call.n # 0) /\ op_bool(call.i) /\ op_bool(call.j)

CopyStep ==
    /\ pc = "copy"
    /\ copy_more
    /\ mem' = counted_assign(call.j, op_deref(call.i))
    /\ call' = [call EXCEPT !.i = op_inc(@), !.j = op_inc(@),
                            !.n = IF call.fn = "copy_n" THEN @ - 1 ELSE @]
    /\ UNCHANGED <<test, args, it, out, steps, ret, pc>>

CopyReturn ==
    /\ pc = "copy"
    /\ ~copy_more
    /\ ret' = [fn |-> call.fn, val |-> call.j]
    /\ call' = [fn |-> "none"]
    /\ pc' = "done"
    /\ UNCHANGED <<mem, test, args, it, out, steps>>

\* take(i, n) == counted(i, std::min(n, size(i))), and once(t).  size is
\* one call for an iterable with end(), and a loop, followed here one
\* iteration at a time, for one without.
Predicates == {"even", "odd", "nonzero", "none"}

InitTake ==
    \/ \E x \in Sources("a", Arrays), n \in 0..MaxCap,
          w \in {"source", "filter", "until"}, p \in Predicates :
          /\ mem = [a |-> x.arr, b |-> <<>>]
          /\ Start("take", [fn |-> "take", n |-> n],
                   CASE w = "source" -> x.src
                     [] w = "filter" -> filter(p, x.src)
                     [] w = "until"  -> until(p, x.src))
    \/ \E t \in Values, n \in 0..MaxCap :
          /\ mem = [a |-> <<>>, b |-> <<>>]
          /\ Start("take", [fn |-> "take", n |-> n], constant(t))
    \/ \E t \in Values :
          /\ mem = [a |-> <<>>, b |-> <<>>]
          /\ Start("take", [fn |-> "once", n |-> 1], constant(t))

take_return(k) ==
    /\ ret' = [fn |-> args.fn, val |-> counted(it, Min2(args.n, k))]
    /\ call' = [fn |-> "none"]
    /\ pc' = "done"
    /\ UNCHANGED <<mem, test, args, it, out, steps>>

TakeBounded ==
    /\ pc = "run"
    /\ test = "take"
    /\ has_end(it)
    /\ take_return(size(it, 0))

CallTake ==
    /\ pc = "run"
    /\ test = "take"
    /\ ~has_end(it)
    /\ call' = [fn |-> "size", i |-> it, n |-> 0]
    /\ pc' = "size"
    /\ UNCHANGED <<mem, test, args, it, out, steps, ret>>

SizeStep ==
    /\ pc = "size"
    /\ op_bool(call.i)
    /\ call' = [call EXCEPT !.i = op_inc(@), !.n = SizeT(@ + 1)]
    /\ UNCHANGED <<mem, test, args, it, out, steps, ret, pc>>

SizeReturn ==
    /\ pc = "size"
    /\ ~op_bool(call.i)
    /\ take_return(call.n)

\* A loop that never ends and has no side effect is undefined behaviour:
\* the build may also leave the loop out and return with any count.
SizeAssumedToEnd ==
    /\ pc = "size"
    /\ call.i.type = "constant"
    /\ \E k \in 0..SIZE_MAX : take_return(k)

NextTake ==
    \/ TakeBounded
    \/ CallTake
    \/ SizeStep
    \/ SizeReturn
    \/ SizeAssumedToEnd

\* A call that has begun keeps running.
TakeSpec == InitTake /\ [][NextTake]_vars /\ WF_vars(NextTake)

Next ==
    \/ Retreat
    \/ OffsetPlusEq
    \/ OffsetMinusEq
    \/ OffsetPlus
    \/ OffsetMinus
    \/ OffsetFriendPlus
    \/ CallCopy
    \/ CopyStep
    \/ CopyReturn
    \/ Read
    \/ Advance
    \/ CallCompare
    \/ CallSize
    \/ CallDrop
    \/ CallEnd
    \/ CopyConstruct

Spec == Init /\ [][Next]_vars

\* ------------------------------------------------------------------ claims
Count(v, s) == Cardinality({k \in 1..Len(s) : s[k] = v})

AllValues == 0..(IF MaxVal > MaxIota THEN MaxVal ELSE MaxIota)

\* i after k calls of operator++
RECURSIVE AdvN(_, _)
AdvN(c, k) == IF k = 0 THEN c ELSE AdvN(op_inc(c), k - 1)

\* the number of elements i has left: the calls of operator++ until
\* operator bool() is false
RECURSIVE Length(_)
Length(c) == IF op_bool(c) THEN 1 + Length(op_inc(c)) ELSE 0

Take(s, n) == SubSeq(s, 1, Min2(n, Len(s)))

RECURSIVE UntilPrefix(_, _)

\* C1: reading merge(a, b) of two sorted finite sequences to exhaustion
\* yields a non-decreasing sequence of size(a)+size(b) elements in which
\* every value occurs as often as in a and b together.
C1_MergeSortedUnion ==
    (test = "merge" /\ ~op_bool(it)) =>
        /\ IsSorted(out)
        /\ Len(out) = Len(Elems(args.i0)) + Len(Elems(args.i1))
        /\ \A v \in AllValues :
               Count(v, out) = Count(v, Elems(args.i0)) + Count(v, Elems(args.i1))

C1_Witness ==
    /\ test = "merge" /\ ~op_bool(it)
    /\ Len(out) >= 4
    /\ \E v \in AllValues :
           Count(v, Elems(args.i0)) >= 2 /\ Count(v, Elems(args.i1)) >= 1

RECURSIVE FoldLeft(_, _, _)
FoldLeft(op, t, s) ==
    IF s = <<>> THEN t ELSE FoldLeft(op, Invoke(op, t, s[1]), Tail(s))

\* C2: reading fold(op, x1..xL, s) with the standard protocol yields exactly
\* L+1 values: s, op(s,x1), ..., the reduction of all L elements.
C2_FoldYieldsAllReductions ==
    (test = "fold" /\ ~op_bool(it)) =>
        /\ Len(out) = Len(Elems(args.i)) + 1
        /\ \A k \in 0..Len(Elems(args.i)) :
               out[k + 1] = FoldLeft(args.op, args.t, Take(Elems(args.i), k))

RECURSIVE Binom(_, _)
Binom(n, k) ==
    IF k = 0 \/ k = n THEN 1 ELSE Binom(n - 1, k - 1) + Binom(n - 1, k)

RECURSIVE SumSeq(_)
SumSeq(s) == IF s = <<>> THEN 0 ELSE s[1] + SumSeq(Tail(s))

\* C3: reading choose(n) to exhaustion yields n+1 values, the k-th of them
\* (k = 0..n) is C(n,k), and they sum to 2^n.
C3_ChooseRow ==
    (test = "choose" /\ ~op_bool(it)) =>
        /\ Len(out) = args.n + 1
        /\ \A k \in 0..args.n : out[k + 1] = Binom(args.n, k)
        /\ SumSeq(out) = 2 ^ args.n

C3_Witness ==
    test = "choose" /\ ~op_bool(it) /\ args.n = 4 /\ out = <<1, 4, 6, 4, 1>>

\* C4: drop(s, k) on a sequence with L elements left is s advanced k times
\* when k <= L and s advanced L times (its exhausted end) when k > L, for
\* iterables with end() and without.
C4_DropAdvancesAtMostLength ==
    ret.fn = "drop" => ret.val = AdvN(it, Min2(ret.n, Length(it)))

C4_Witness ==
    /\ ret.fn = "drop"
    /\ has_end(it)
    /\ Length(it) >= 1
    /\ ret.n > Length(it)
    /\ ~op_bool(ret.val)

RECURSIVE LexCmp(_, _)
LexCmp(s, t) ==
    IF s = <<>> \/ t = <<>> THEN CmpBool(s # <<>>, t # <<>>)
    ELSE IF s[1] # t[1] THEN Cmp3(s[1], t[1])
    ELSE LexCmp(Tail(s), Tail(t))

\* C5: compare(i, j, n) is the lexicographic three-way ordering of the first
\* min(n, length) elements of i and of j; sequences that agree on their first
\* n elements compare equal whatever their lengths beyond n.
C5_CompareCappedPrefixes ==
    ret.fn = "compare" =>
        LET lex == LexCmp(Take(Elems(it), args.n), Take(Elems(args.j), args.n))
        IN  ret.val = lex /\ ret.eq = (lex = 0)

\* C6: repeat over a non-empty x1..xL has more in every state and after k
\* advances sits on x((k mod L)+1); repeat over an empty source has no more
\* at construction and after any number of advances.
C6_RepeatCyclesOrStaysEmpty ==
    test = "repeat" =>
        LET x == Elems(args.i)
        IN  IF Len(x) > 0
            THEN op_bool(it) /\ op_deref(it) = x[(steps % Len(x)) + 1]
            ELSE ~op_bool(it)

\* C7: size(concatenate(a, b)) is size(a)+size(b), and reading it yields the
\* elements of a in order, then those of b: what has been read is always a
\* prefix of a followed by b, and all of it once there is no more.
C7_ConcatenateInSeries ==
    test = "concatenate" =>
        LET ab == Elems(args.i0) \o Elems(args.i1)
        IN  /\ out = Take(ab, Len(out))
            /\ ~op_bool(it) => out = ab
            /\ ret.fn = "size" => ret.val + steps = Len(ab)

C7_Witness ==
    /\ test = "concatenate"
    /\ ret.fn = "size" /\ steps = 0 /\ ret.val = 5
    /\ Len(Elems(args.i0)) = 2

\* C8: reading delta over x1..xL to exhaustion yields the L-1 values
\* d(x2,x1), ..., d(xL,x(L-1)); none for an empty source.
C8_DeltaConsecutive ==
    (test = "delta" /\ ~op_bool(it)) =>
        LET x == Elems(args.i)
        IN  /\ Len(out) = (IF Len(x) = 0 THEN 0 ELSE Len(x) - 1)
            /\ \A k \in 1..(Len(x) - 1) : out[k] = Invoke(args.d, x[k + 1], x[k])

C8_Witness ==
    /\ test = "delta" /\ ~op_bool(it)
    /\ args.d = "minus"
    /\ Elems(args.i) = <<1, 2, 3>>
    /\ out = <<1, 1>>

\* C9 as stated: c.end() has no more, c.begin() advanced size(c) times is
\* c.end(), and no fewer advances reach it.
C9_EndAfterSizeOfCursor ==
    ret.fn = "end" =>
        /\ ~op_bool(ret.val)
        /\ AdvN(member_begin(it), size(it, 0)) = ret.val
        /\ \A k \in 0..(size(it, 0) - 1) : AdvN(member_begin(it), k) # ret.val

\* C9 amended: c.end() has no more, c.begin() advanced size(c.begin()) times
\* is c.end(), and no fewer advances reach it.
C9_EndAfterSizeOfBegin ==
    ret.fn = "end" =>
        /\ ~op_bool(ret.val)
        /\ AdvN(member_begin(it), size(member_begin(it), 0)) = ret.val
        /\ \A k \in 0..(size(member_begin(it), 0) - 1) :
               AdvN(member_begin(it), k) # ret.val

C9_Witness ==
    /\ ret.fn = "end"
    /\ it.type = "choose"
    /\ steps = 2
    /\ size(it, 0) = 3
    /\ size(member_begin(it), 0) = 5

\* C10: a filter cursor, after construction, after every advance made while
\* it has more and after copy construction, has an inner cursor that is
\* exhausted or sits on an element satisfying the predicate, and its copy is
\* equal to it.
C10_FilterSkipAhead ==
    test = "filter" =>
        /\ ~op_bool(it.i) \/ Pred(it.p, op_deref(it.i))
        /\ ret.fn = "copy" =>
               /\ filter_eq(ret.val, it)
               /\ ret.val = it
               /\ ~op_bool(ret.val.i) \/ Pred(ret.val.p, op_deref(ret.val.i))

C10_Witness ==
    /\ test = "filter"
    /\ ret.fn = "copy"
    /\ steps = 1
    /\ op_bool(it)
    /\ Length(args.i) - Length(it.i) = 3

\* the elements of the source of a copy, as they were before the call
CopySource ==
    IF args.i.type = "counted"
    THEN SubSeq(args.mem0.a, args.i.i.p + 1, args.i.i.p + args.i.n)
    ELSE Elems(args.i)

CopyCount == Min2(Min2(args.n, Len(CopySource)), args.j.n)

\* C11: copy(i, j) writes min(size(i), size(j)) elements and copy_n(i, j, n)
\* min(n, size(i), size(j)): afterwards that many destination slots hold
\* that many first source elements in order, the other destination slots
\* and the source storage are unchanged, and the result is j advanced by
\* that many positions.
C11_CopyWritesExactlyMin ==
    (test = "copy" /\ pc = "done") =>
        /\ \A k \in 1..Len(mem.b) :
               mem.b[k] = IF k <= CopyCount THEN CopySource[k] ELSE args.mem0.b[k]
        /\ Len(mem.b) = Len(args.mem0.b)
        /\ mem.a = args.mem0.a
        /\ ret.val = AdvN(args.j, CopyCount)

C11_Witness ==
    /\ test = "copy" /\ pc = "done"
    /\ args.fn = "copy_n" /\ args.n = 1
    /\ Len(CopySource) >= 2 /\ args.j.n = 2
    /\ mem.b # args.mem0.b

\* merge2_inc(c) advanced the first side and left the second alone
Drew0(c, nx) == nx.i0 = op_inc(c.i0) /\ nx.i1 = c.i1
\* merge2_inc(c) advanced the second side and left the first alone
Drew1(c, nx) == nx.i1 = op_inc(c.i1) /\ nx.i0 = c.i0

\* C12: after construction and after every advance of merge2: a strictly
\* lesser side is drawn and the bias flag names it; on equivalent elements
\* the side the flag names is drawn and the advance flips the flag; a side
\* that alone has more is drawn and the flag names it; the element read
\* always comes from the side the next advance advances.
C12_MergeBiasRule ==
    (test = "merge" /\ op_bool(it)) =>
        LET nx == merge2_inc(it)
        IN  IF op_bool(it.i0) /\ op_bool(it.i1)
            THEN IF op_deref(it.i0) < op_deref(it.i1)
                 THEN op_deref(it) = op_deref(it.i0) /\ it.b_0 /\ Drew0(it, nx)
                 ELSE IF op_deref(it.i1) < op_deref(it.i0)
                 THEN op_deref(it) = op_deref(it.i1) /\ ~it.b_0 /\ Drew1(it, nx)
                 ELSE /\ IF it.b_0 THEN Drew0(it, nx) ELSE Drew1(it, nx)
                      /\ nx.b_0 = ~it.b_0
            ELSE IF op_bool(it.i0)
                 THEN op_deref(it) = op_deref(it.i0) /\ it.b_0 /\ Drew0(it, nx)
                 ELSE op_deref(it) = op_deref(it.i1) /\ ~it.b_0 /\ Drew1(it, nx)

\* C13 as stated: in every state of a counted cursor built at position p0
\* with count n0 and moved by ++, --, +=, -=, + and -, position + count is
\* p0 + n0, has_more() is count != 0, and ++ at count 0 changes nothing.
C13_CountedLockstepExact ==
    test = "counted" =>
        /\ it.i.p + it.n = args.p0 + args.n0
        /\ op_bool(it) = (it.n # 0)
        /\ it.n = 0 => op_inc(it) = it

\* C13 amended: position + count is p0 + n0 while the position is not past
\* the end p0 + n0 of the range; past it the std::size_t count has wrapped
\* and the sum is p0 + n0 + SIZE_MAX + 1; has_more() is count != 0, and ++
\* at count 0 changes nothing.
C13_CountedLockstepModulo ==
    test = "counted" =>
        /\ it.i.p + it.n =
               IF it.i.p <= args.p0 + args.n0
               THEN args.p0 + args.n0
               ELSE args.p0 + args.n0 + SIZE_MAX + 1
        /\ op_bool(it) = (it.n # 0)
        /\ it.n = 0 => op_inc(it) = it

\* an offset has carried a cursor with one element left two positions on
C13_Witness ==
    /\ test = "counted"
    /\ steps >= 1
    /\ args.n0 = 1
    /\ it.i.p = args.p0 + 2
    /\ it.n = SIZE_MAX

\* The count of the cursor C14 says take returns: min(n, remaining length
\* of i), n for a source that never ends.
TakeCount == IF it.type = "constant" THEN args.n ELSE Min2(args.n, Length(it))

\* C14: take(i, n) terminates for every cursor i and every n, a constant
\* source that never ends included, and so does once(t): every call
\* returns.
C14_TakeTerminates == <>(pc = "done")

\* C15 as stated: once has_more() of an until cursor over a counted source
\* has returned false, whether the source is exhausted or p holds on the
\* current element, it is false after every further ++.
C15_UntilExhaustionAbsorbing ==
    [][(test = "until" /\ ~op_bool(it)) => ~op_bool(it')]_vars

\* the elements of s before the first that satisfies p
UntilPrefix(p, s) ==
    IF s = <<>> \/ Pred(p, Head(s)) THEN <<>> ELSE <<Head(s)>> \o UntilPrefix(p, Tail(s))

\* C15 amended: exhaustion is absorbing once the counted source is exhausted;
\* a consumer that has asked has_more() before every ++ has seen a prefix of
\* the elements before the first that satisfies p, all of them when
\* has_more() is false.
C15_UntilStopsBeforeFirst ==
    test = "until" =>
        /\ ~op_bool(it.i) => (~op_bool(it) /\ ~op_bool(op_inc(it)))
        /\ steps = Len(out) =>
               LET pre == UntilPrefix(args.p, Elems(args.i))
               IN  /\ Len(out) <= Len(pre)
                   /\ out = SubSeq(pre, 1, Len(out))
                   /\ ~op_bool(it) => out = pre

\* has_more() is false because p holds on the element the source is at
C15_Witness ==
    /\ test = "until"
    /\ steps = Len(out)
    /\ Len(out) = 1
    /\ ~op_bool(it)
    /\ op_bool(it.i)
    /\ Pred(args.p, op_deref(it.i))

====
